---- MODULE Spec2Model ----
(***************************************************************************)
(* Model of the Educational RAG System: the `process` command (load,       *)
(* split, store), the `query` command and the interactive loop, with       *)
(* rag_query and query_ollama.  Text is a sequence of one-character        *)
(* strings, so that splitting, stripping, lower-casing and basename are    *)
(* computed character by character as the code computes them.              *)
(***************************************************************************)
EXTENDS Integers, Sequences, FiniteSets, TLC

\* ------------------------------------------------------------------ bounds
\* longest text given to the splitter on its own
MaxLen == 4
\* largest chunk_size
MaxChunkSize == 3
\* longest text of a document loaded by the `process` command
MaxDocLen == 2
\* largest --top-k
MaxTopK == 3
\* most questions read by the interactive loop
MaxReads == 3

\* ------------------------------------------------------- text primitives
Chars == {"a", " ", "\n", "."}

Texts == UNION {[1..n -> Chars] : n \in 0..MaxLen}

\* str.isspace for the characters of the model
IsSpace(c) == c \in {" ", "\n"}

RECURSIVE lstrip(_)
lstrip(s) == IF s # <<>> /\ IsSpace(Head(s)) THEN lstrip(Tail(s)) ELSE s

RECURSIVE rstrip(_)
rstrip(s) ==
    IF s # <<>> /\ IsSpace(s[Len(s)]) THEN rstrip(SubSeq(s, 1, Len(s) - 1)) ELSE s

\* str.strip()
strip(s) == rstrip(lstrip(s))

\* separator.join(docs)
RECURSIVE Join(_, _)
Join(docs, separator) ==
    IF docs = <<>> THEN <<>>
    ELSE IF Len(docs) = 1 THEN docs[1]
    ELSE docs[1] \o separator \o Join(Tail(docs), separator)

\* index of the first occurrence of sep in text, 0 when there is none (re.search)
Find(text, sep) ==
    LET hits == {i \in 1..(Len(text) - Len(sep) + 1) :
                    SubSeq(text, i, i + Len(sep) - 1) = sep}
    IN IF hits = {} THEN 0 ELSE CHOOSE i \in hits : \A j \in hits : i <= j

\* re.split(sep, text) for a literal, non-empty sep: the pieces between the
\* non-overlapping occurrences of sep, found left to right
RECURSIVE re_split(_, _)
re_split(text, sep) ==
    LET i == Find(text, sep)
    IN IF i = 0 THEN <<text>>
       ELSE <<SubSeq(text, 1, i - 1)>>
            \o re_split(SubSeq(text, i + Len(sep), Len(text)), sep)

\* ------------------------------------- RecursiveCharacterTextSplitter
\* separators=["\n\n", "\n", ".", " ", ""]
separators == << <<"\n", "\n">>, <<"\n">>, <<".">>, <<" ">>, <<>> >>

\* defaults of the splitter that document_processor.py does not override
keep_separator == TRUE
strip_whitespace == TRUE

\* _split_text_with_regex: with keep_separator each separator is kept at the
\* start of the piece that follows it; empty pieces are dropped
split_text_with_regex(text, separator, keep) ==
    LET splits ==
            IF separator # <<>>
            THEN LET parts == re_split(text, separator)
                 IN IF keep
                    THEN [i \in 1..Len(parts) |->
                             IF i = 1 THEN parts[1] ELSE separator \o parts[i]]
                    ELSE parts
            ELSE [i \in 1..Len(text) |-> <<text[i]>>]
    IN SelectSeq(splits, LAMBDA s : s # <<>>)

\* _join_docs: the joined text, stripped; None (here <<>>) when nothing is left
join_docs(docs, separator) ==
    LET text == Join(docs, separator)
    IN IF strip_whitespace THEN strip(text) ELSE text

\* the `while` of _merge_splits that pops pieces off the front of current_doc
RECURSIVE pop_front(_, _, _, _, _, _)
pop_front(current_doc, total, len, separator_len, chunk_size, chunk_overlap) ==
    IF total > chunk_overlap
       \/ (total + len + (IF Len(current_doc) > 0 THEN separator_len ELSE 0) > chunk_size
           /\ total > 0)
    THEN pop_front(Tail(current_doc),
                   total - (Len(current_doc[1])
                            + (IF Len(current_doc) > 1 THEN separator_len ELSE 0)),
                   len, separator_len, chunk_size, chunk_overlap)
    ELSE [current_doc |-> current_doc, total |-> total]

\* the `for d in splits` loop of _merge_splits
RECURSIVE merge_loop(_, _, _, _, _, _, _, _)
merge_loop(splits, i, docs, current_doc, total, separator, chunk_size, chunk_overlap) ==
    IF i > Len(splits)
    THEN LET doc == join_docs(current_doc, separator)
         IN IF doc # <<>> THEN Append(docs, doc) ELSE docs
    ELSE
      LET d == splits[i]
          len == Len(d)
          separator_len == Len(separator)
          over == total + len + (IF Len(current_doc) > 0 THEN separator_len ELSE 0)
                    > chunk_size
          flush == over /\ Len(current_doc) > 0
          doc == join_docs(current_doc, separator)
          docs1 == IF flush /\ doc # <<>> THEN Append(docs, doc) ELSE docs
          kept == IF flush
                  THEN pop_front(current_doc, total, len, separator_len,
                                 chunk_size, chunk_overlap)
                  ELSE [current_doc |-> current_doc, total |-> total]
          current1 == Append(kept.current_doc, d)
          total1 == kept.total + len + (IF Len(current1) > 1 THEN separator_len ELSE 0)
      IN merge_loop(splits, i + 1, docs1, current1, total1, separator,
                    chunk_size, chunk_overlap)

\* _merge_splits
merge_splits(splits, separator, chunk_size, chunk_overlap) ==
    merge_loop(splits, 1, <<>>, <<>>, 0, separator, chunk_size, chunk_overlap)

\* the separator _split_text picks: the first of the list found in the text
\* (the empty separator always is), and the separators left for the recursion
RECURSIVE pick_separator(_, _, _)
pick_separator(text, seps, i) ==
    IF i > Len(seps)
    THEN [separator |-> seps[Len(seps)], new_separators |-> <<>>]
    ELSE IF seps[i] = <<>>
    THEN [separator |-> <<>>, new_separators |-> <<>>]
    ELSE IF Find(text, seps[i]) # 0
    THEN [separator |-> seps[i], new_separators |-> SubSeq(seps, i + 1, Len(seps))]
    ELSE pick_separator(text, seps, i + 1)

RECURSIVE split_text(_, _, _, _)
RECURSIVE split_loop(_, _, _, _, _, _, _, _)

\* the `for s in splits` loop of _split_text: pieces shorter than chunk_size
\* are collected and merged, longer ones are split with the finer separators
\* or, when none is left, emitted as they are
split_loop(splits, i, good_splits, final_chunks, merge_sep, new_separators, chunk_size, chunk_overlap) ==
    IF i > Len(splits)
    THEN IF good_splits # <<>>
         THEN final_chunks \o merge_splits(good_splits, merge_sep, chunk_size, chunk_overlap)
         ELSE final_chunks
    ELSE
      LET s == splits[i]
      IN IF Len(s) < chunk_size
         THEN split_loop(splits, i + 1, Append(good_splits, s), final_chunks,
                         merge_sep, new_separators, chunk_size, chunk_overlap)
         ELSE
           LET flushed == IF good_splits # <<>>
                          THEN final_chunks
                               \o merge_splits(good_splits, merge_sep,
                                               chunk_size, chunk_overlap)
                          ELSE final_chunks
               other == IF new_separators = <<>>
                        THEN <<s>>
                        ELSE split_text(s, new_separators, chunk_size, chunk_overlap)
           IN split_loop(splits, i + 1, <<>>, flushed \o other,
                         merge_sep, new_separators, chunk_size, chunk_overlap)

\* RecursiveCharacterTextSplitter._split_text
split_text(text, seps, chunk_size, chunk_overlap) ==
    LET pick == pick_separator(text, seps, 1)
        splits == split_text_with_regex(text, pick.separator, keep_separator)
        merge_sep == IF keep_separator THEN <<>> ELSE pick.separator
    IN split_loop(splits, 1, <<>>, <<>>, merge_sep, pick.new_separators,
                  chunk_size, chunk_overlap)

\* ------------------------------------------------------------ metadata
\* a metadata dict is a function from the keys present to their values
EmptyDict == [k \in {} |-> <<>>]

Has(dict, key) == key \in DOMAIN dict

\* dict[key] = value on a copy of dict
SetKey(dict, key, value) ==
    [k \in DOMAIN dict \cup {key} |-> IF k = key THEN value ELSE dict[k]]

\* os.path.basename: what follows the last "/"
basename(path) ==
    LET slashes == {i \in 1..Len(path) : path[i] = "/"}
    IN IF slashes = {} THEN path
       ELSE SubSeq(path, (CHOOSE i \in slashes : \A j \in slashes : j <= i) + 1, Len(path))

\* ----------------------------------------------------- split_documents
\* TextSplitter.create_documents for one document: a chunk per piece of
\* split_text, each with a copy of the document's metadata
create_documents(doc, chunk_size, chunk_overlap) ==
    LET texts == split_text(doc.page_content, separators, chunk_size, chunk_overlap)
    IN [i \in 1..Len(texts) |-> [page_content |-> texts[i], metadata |-> doc.metadata]]

\* text_splitter.split_documents: the chunks of all documents, in order
RECURSIVE splitter_split_documents(_, _, _)
splitter_split_documents(documents, chunk_size, chunk_overlap) ==
    IF documents = <<>> THEN <<>>
    ELSE create_documents(Head(documents), chunk_size, chunk_overlap)
         \o splitter_split_documents(Tail(documents), chunk_size, chunk_overlap)

\* the body of `for i, chunk in enumerate(chunks)`; i counts from 0
stamp_metadata(i, chunk) ==
    LET m1 == IF Has(chunk.metadata, "source")
              THEN SetKey(chunk.metadata, "file_name", basename(chunk.metadata["source"]))
              ELSE chunk.metadata
    IN [chunk EXCEPT !.metadata = SetKey(m1, "chunk_id", i)]

\* a chunker that numbers the chunks of each document from 0 again
RECURSIVE split_documents_per_doc(_, _, _)
split_documents_per_doc(documents, chunk_size, chunk_overlap) ==
    IF documents = <<>> THEN <<>>
    ELSE LET own == create_documents(Head(documents), chunk_size, chunk_overlap)
         IN [i \in 1..Len(own) |-> stamp_metadata(i - 1, own[i])]
            \o split_documents_per_doc(Tail(documents), chunk_size, chunk_overlap)

\* split_documents once the splitter is constructed
split_documents(documents, chunk_size, chunk_overlap) ==
    LET chunks0 == splitter_split_documents(documents, chunk_size, chunk_overlap)
    IN [i \in 1..Len(chunks0) |-> stamp_metadata(i - 1, chunks0[i])]

\* TextSplitter.__init__ raises ValueError for an overlap larger than the size
splitter_rejects(chunk_size, chunk_overlap) == chunk_overlap > chunk_size

\* ------------------------------------------------------------------ state
VARIABLES
    command,          \* "process", "query", "interactive"; "split" for the chunker alone
    directory_exists, \* os.path.isdir(args.directory)
    pdf_load,         \* what pdf_loader.load() does: [ok, docs]
    txt_load,         \* what text_loader.load() does: [ok, docs]
    chunk_size, chunk_overlap, db_path, top_k,
    dirs,             \* the database directories that exist
    pc,               \* position of the program
    documents, chunks,
    stored,           \* chunks written to the vector store, by directory
    embed_calls,      \* embedding models initialised (get_embeddings)
    opened,           \* directories at which a vector store was opened for a query
    searched,         \* similarity searches run
    ollama_calls,     \* requests posted to the generation service
    line,             \* interactive_mode's `query`: the last line read
    user_query, relevant_docs, sources, prompt, reply, answer,
    result,           \* <<the dict rag_query returned>>, until the caller has printed it
    raised,           \* "None" or the exception that ended the program
    stdout,           \* the last thing printed: [text, answer, sources]
    exit_code,
    reads, queries, printed

vars == <<command, directory_exists, pdf_load, txt_load, chunk_size, chunk_overlap, db_path, top_k, dirs, pc, documents, chunks, stored, embed_calls, opened, searched, ollama_calls, line, user_query, relevant_docs, sources, prompt, reply, answer, result, raised, stdout, exit_code, reads, queries, printed>>

\* ----------------------------------------------------------------- inputs
DefaultDbPath == "./chroma_db"
OtherDbPath == "./course_db"
DbPaths == {DefaultDbPath, OtherDbPath}

PdfSource == <<"d", "/", "p">>
TxtSource == <<"t">>

\* texts of the documents a directory holds
DocTexts == UNION {[1..n -> {"a", " "}] : n \in 0..MaxDocLen}

Doc(text, meta) == [page_content |-> text, metadata |-> meta]

PdfDocs == {Doc(t, "source" :> PdfSource) : t \in DocTexts}
TxtDocs == {Doc(t, m) : t \in DocTexts, m \in {"source" :> TxtSource, EmptyDict}}

Loaded(docs) == [ok |-> TRUE, docs |-> docs]
LoadFails == [ok |-> FALSE, docs |-> <<>>]

LoadOutcomes(docs) == {LoadFails, Loaded(<<>>)} \cup {Loaded(<<d>>) : d \in docs}

\* a stored chunk as a query gets it back
RetrievedChunks ==
    {Doc(<<"a">>, EmptyDict)}
    \cup {Doc(<<"a">>, ("source" :> s) @@ ("file_name" :> basename(s)) @@ ("chunk_id" :> 0)) : s \in {PdfSource, TxtSource}}

Question == <<"h", "i">>

\* lines typed at the interactive prompt
Lines ==
    { <<"e","x","i","t">>, <<"E","X","I","T">>, <<"Q","u","i","t">>, <<"q","u","i","t">>,
      <<"q">>, <<"Q">>,
      Question, <<"e","x","i","t"," ">>, <<>> }

\* replies of the generation service
Replies ==
    {[status |-> 200, response |-> r, text |-> <<"{", "}">>] : r \in {<<>>, <<"o", "k">>}}
    \cup {[status |-> st, response |-> <<>>, text |-> b] : st \in {404, 500}, b \in {<<>>, <<"n", "o">>}}

\* a line of output without an answer
Out(text) == [text |-> text, answer |-> <<>>, sources |-> <<>>]

\* the locals of a program that has not run yet
FreshLocals ==
    /\ chunks = <<>>
    /\ stored = [p \in DbPaths |-> <<>>]
    /\ embed_calls = 0 /\ opened = <<>> /\ searched = 0 /\ ollama_calls = 0
    /\ line = <<>> /\ user_query = <<>> /\ relevant_docs = <<>> /\ sources = <<>>
    /\ prompt = <<>> /\ reply = <<>> /\ answer = <<>> /\ result = <<>>
    /\ raised = "None" /\ stdout = Out("") /\ exit_code = -1
    /\ reads = 0 /\ queries = 0 /\ printed = 0

Fresh == documents = <<>> /\ FreshLocals

NoDirectory ==
    /\ directory_exists = FALSE /\ pdf_load = LoadFails /\ txt_load = LoadFails

NoChunking == chunk_size = 1000 /\ chunk_overlap = 200

InitProcess ==
    /\ command = "process" /\ pc = "start"
    /\ \/ /\ directory_exists = TRUE
          /\ pdf_load \in LoadOutcomes(PdfDocs)
          /\ txt_load \in LoadOutcomes(TxtDocs)
       \/ NoDirectory
    /\ chunk_size \in 1..MaxChunkSize
    /\ chunk_overlap \in 0..(chunk_size + 1)
    /\ db_path \in DbPaths
    /\ dirs \in {{}, DbPaths}
    /\ top_k = 5
    /\ Fresh

InitQuery ==
    /\ command \in {"query", "interactive"} /\ pc = "start"
    /\ NoDirectory /\ NoChunking
    /\ db_path \in DbPaths
    /\ dirs \in SUBSET DbPaths
    /\ top_k \in 1..MaxTopK
    /\ Fresh

Init == InitProcess \/ InitQuery

\* the chunker alone, on one document
InitSplit ==
    /\ command = "split" /\ pc = "split"
    /\ NoDirectory
    /\ chunk_size \in 1..MaxChunkSize
    /\ chunk_overlap \in 0..chunk_size
    /\ db_path = DefaultDbPath /\ dirs = {} /\ top_k = 5
    /\ \E t \in Texts : documents = <<Doc(t, "source" :> TxtSource)>>
    /\ FreshLocals

\* ------------------------------------------------------ `process` command
\* main, lines 38-42: the directory must exist
ProcessCheckDirectory ==
    /\ pc = "start" /\ command = "process"
    /\ IF ~directory_exists
       THEN /\ stdout' = Out("Error: Directory does not exist")
            /\ exit_code' = 0
            /\ pc' = "done"
       ELSE /\ pc' = "load_pdf"
            /\ UNCHANGED <<stdout, exit_code>>
    /\ UNCHANGED <<command, directory_exists, pdf_load, txt_load, chunk_size, chunk_overlap, db_path, top_k, dirs, documents, chunks, stored, embed_calls, opened, searched, ollama_calls, line, user_query, relevant_docs, sources, prompt, reply, answer, result, raised, reads, queries, printed>>

\* one try/except of load_documents: what the loader gives is appended, a
\* failure is printed and swallowed
load_kind(docs, outcome) == IF outcome.ok THEN docs \o outcome.docs ELSE docs

\* load_documents, lines 29-33
LoadPdf ==
    /\ pc = "load_pdf"
    /\ documents' = load_kind(documents, pdf_load)
    /\ stdout' = IF pdf_load.ok THEN Out("Loaded PDF documents") ELSE Out("Error loading PDF files")
    /\ pc' = "load_txt"
    /\ UNCHANGED <<command, directory_exists, pdf_load, txt_load, chunk_size, chunk_overlap, db_path, top_k, dirs, chunks, stored, embed_calls, opened, searched, ollama_calls, line, user_query, relevant_docs, sources, prompt, reply, answer, result, raised, exit_code, reads, queries, printed>>

\* load_documents, lines 35-41
LoadText ==
    /\ pc = "load_txt"
    /\ documents' = load_kind(documents, txt_load)
    /\ stdout' = IF txt_load.ok THEN Out("Loaded text documents") ELSE Out("Error loading text files")
    /\ pc' = "split"
    /\ UNCHANGED <<command, directory_exists, pdf_load, txt_load, chunk_size, chunk_overlap, db_path, top_k, dirs, chunks, stored, embed_calls, opened, searched, ollama_calls, line, user_query, relevant_docs, sources, prompt, reply, answer, result, raised, exit_code, reads, queries, printed>>

\* split_documents as process_directory calls it: the splitter's constructor
\* raises, or the chunks are made and stamped
SplitDocuments ==
    /\ pc = "split"
    /\ IF splitter_rejects(chunk_size, chunk_overlap)
       THEN /\ raised' = "ValueError"
            /\ exit_code' = 1
            /\ pc' = "done"
            /\ UNCHANGED <<chunks, stdout>>
       ELSE /\ chunks' = split_documents(documents, chunk_size, chunk_overlap)
            /\ stdout' = Out("Created chunks")
            /\ pc' = "store"
            /\ UNCHANGED <<raised, exit_code>>
    /\ UNCHANGED <<command, directory_exists, pdf_load, txt_load, chunk_size, chunk_overlap, db_path, top_k, dirs, documents, stored, embed_calls, opened, searched, ollama_calls, line, user_query, relevant_docs, sources, prompt, reply, answer, result, reads, queries, printed>>

\* a main that stores whatever the chunker returned
has_chunks_always(cs) == TRUE

\* `if chunks:` of main, line 46
has_chunks(cs) == cs # <<>>

\* main, lines 46-49: store_documents(chunks, args.db_path) when there are chunks
StoreOrReport ==
    /\ pc = "store" /\ command = "process"
    /\ IF has_chunks(chunks)
       THEN /\ embed_calls' = embed_calls + 1
            /\ stored' = [stored EXCEPT ![db_path] = @ \o chunks]
            /\ dirs' = dirs \cup {db_path}
            /\ stdout' = Out("Stored chunks in ChromaDB")
       ELSE /\ stdout' = Out("No documents were processed.")
            /\ UNCHANGED <<embed_calls, stored, dirs>>
    /\ exit_code' = 0
    /\ pc' = "done"
    /\ UNCHANGED <<command, directory_exists, pdf_load, txt_load, chunk_size, chunk_overlap, db_path, top_k, documents, chunks, opened, searched, ollama_calls, line, user_query, relevant_docs, sources, prompt, reply, answer, result, raised, reads, queries, printed>>

NextProcess == ProcessCheckDirectory \/ LoadPdf \/ LoadText \/ SplitDocuments \/ StoreOrReport

\* the chunker alone
NextSplit == SplitDocuments

SpecSplit == InitSplit /\ [][NextSplit]_vars

SpecProcess == InitProcess /\ [][NextProcess]_vars

\* ------------------------------------------------------------ rag_query
\* the persist_directory retrieve_documents gets from rag_query, whose caller
\* was given db: rag_query takes no path and passes none, so it is the default
persist_directory(db) == DefaultDbPath

\* all sequences over S of length at most n
SeqsUpTo(S, n) == UNION {[1..k -> S] : k \in 0..n}

\* a rag_query that catches a failed retrieval and goes on without documents
RetrieveDegraded ==
    /\ pc = "retrieve"
    /\ embed_calls' = embed_calls + 1
    /\ \E stage \in {"embedding", "open", "search", "ok"} :
          /\ opened' = IF stage = "embedding" THEN opened
                       ELSE Append(opened, persist_directory(db_path))
          /\ dirs' = IF stage = "embedding" THEN dirs
                     ELSE dirs \cup {persist_directory(db_path)}
          /\ searched' = IF stage \in {"search", "ok"} THEN searched + 1 ELSE searched
          /\ IF stage = "ok"
             THEN /\ relevant_docs' \in SeqsUpTo(RetrievedChunks, top_k)
                  /\ UNCHANGED raised
             ELSE /\ raised' = "retrieval failed"
                  /\ UNCHANGED relevant_docs
    /\ pc' = "assemble"
    /\ UNCHANGED <<command, directory_exists, pdf_load, txt_load, chunk_size, chunk_overlap, db_path, top_k, documents, chunks, stored, ollama_calls, line, user_query, sources, prompt, reply, answer, result, stdout, exit_code, reads, queries, printed>>

\* retrieve_documents(user_query, top_k): the embedding model, the store at
\* persist_directory and the search are external and may each fail; a failure
\* is an exception that neither rag_query nor its callers catch
\* (opening a store creates its directory when it is missing)
Retrieve ==
    /\ pc = "retrieve"
    /\ embed_calls' = embed_calls + 1
    /\ \E stage \in {"embedding", "open", "search", "ok"} :
          /\ opened' = IF stage = "embedding" THEN opened
                       ELSE Append(opened, persist_directory(db_path))
          /\ dirs' = IF stage = "embedding" THEN dirs
                     ELSE dirs \cup {persist_directory(db_path)}
          /\ searched' = IF stage \in {"search", "ok"} THEN searched + 1 ELSE searched
          /\ IF stage = "ok"
             THEN /\ relevant_docs' \in SeqsUpTo(RetrievedChunks, top_k)
                  /\ pc' = "assemble"
                  /\ UNCHANGED <<raised, exit_code>>
             ELSE /\ raised' = "retrieval failed"
                  /\ exit_code' = 1
                  /\ pc' = "done"
                  /\ UNCHANGED relevant_docs
    /\ UNCHANGED <<command, directory_exists, pdf_load, txt_load, chunk_size, chunk_overlap, db_path, top_k, documents, chunks, stored, ollama_calls, line, user_query, sources, prompt, reply, answer, result, stdout, reads, queries, printed>>

\* doc.metadata.get('file_name', 'Unknown')
file_name_of(doc) ==
    IF Has(doc.metadata, "file_name") THEN doc.metadata["file_name"]
    ELSE <<"U","n","k","n","o","w","n">>

\* the `sources` list built by the loop of lines 58-62
RECURSIVE collect_sources(_)
collect_sources(docs) ==
    IF docs = <<>> THEN <<>>
    ELSE (IF Has(Head(docs).metadata, "source") THEN <<Head(docs).metadata["source"]>> ELSE <<>>)
         \o collect_sources(Tail(docs))

Range(seq) == {seq[i] : i \in 1..Len(seq)}

\* the orders in which a set can be iterated
Orderings(S) == {o \in [1..Cardinality(S) -> S] : Range(o) = S}

\* a list(sources) with the set() forgotten
list_plain(srcs) == {srcs}

\* what list(set(sources)) can be
list_set(srcs) == Orderings(Range(srcs))

\* lines 55-85: context, sources, citation labels and prompt
Assemble ==
    /\ pc = "assemble"
    /\ sources' = collect_sources(relevant_docs)
    /\ \E order \in list_set(sources') :
          prompt' = <<[context |-> [i \in 1..Len(relevant_docs) |-> <<file_name_of(relevant_docs[i]), relevant_docs[i].page_content>>],
                       sources |-> [i \in 1..Len(order) |-> <<i, basename(order[i])>>],
                       question |-> user_query]>>
    /\ pc' = "generate"
    /\ UNCHANGED <<command, directory_exists, pdf_load, txt_load, chunk_size, chunk_overlap, db_path, top_k, dirs, documents, chunks, stored, embed_calls, opened, searched, ollama_calls, line, user_query, relevant_docs, reply, answer, result, raised, stdout, exit_code, reads, queries, printed>>

ErrorPrefix == <<"E","r","r","o","r",":"," ">>

\* a query_ollama that reports a failure without the body
ollama_answer_no_body(r) == IF r.status = 200 THEN r.response ELSE ErrorPrefix

\* what query_ollama returns for a reply of the service
ollama_answer(r) == IF r.status = 200 THEN r.response ELSE ErrorPrefix \o r.text

\* query_ollama(prompt, model): the request is posted; the service replies, or
\* the transport fails with an exception nobody catches
Generate ==
    /\ pc = "generate"
    /\ ollama_calls' = ollama_calls + 1
    /\ \/ /\ \E r \in Replies :
                /\ reply' = <<r>>
                /\ answer' = ollama_answer(r)
          /\ pc' = "return"
          /\ UNCHANGED <<raised, exit_code>>
       \/ /\ raised' = "generation failed"
          /\ exit_code' = 1
          /\ pc' = "done"
          /\ UNCHANGED <<reply, answer>>
    /\ UNCHANGED <<command, directory_exists, pdf_load, txt_load, chunk_size, chunk_overlap, db_path, top_k, dirs, documents, chunks, stored, embed_calls, opened, searched, line, user_query, relevant_docs, sources, prompt, result, stdout, reads, queries, printed>>

\* lines 90-93: the dict returned
Return ==
    /\ pc = "return"
    /\ \E order \in list_set(sources) :
          result' = <<[answer |-> answer, sources |-> order]>>
    /\ pc' = "print"
    /\ UNCHANGED <<command, directory_exists, pdf_load, txt_load, chunk_size, chunk_overlap, db_path, top_k, dirs, documents, chunks, stored, embed_calls, opened, searched, ollama_calls, line, user_query, relevant_docs, sources, prompt, reply, answer, raised, stdout, exit_code, reads, queries, printed>>

\* the citation list printed by `for i, source in enumerate(result["sources"])`
numbered_sources(srcs) == [i \in 1..Len(srcs) |-> <<i, basename(srcs[i])>>]

\* main lines 59-63, interactive_mode lines 35-39: answer and sources are
\* printed; main is then done, the loop goes back to its input(). The values
\* of the finished call are dropped here.
PrintResult ==
    /\ pc = "print"
    /\ stdout' = [text |-> "Answer:", answer |-> result[1].answer, sources |-> numbered_sources(result[1].sources)]
    /\ printed' = printed + 1
    /\ result' = <<>>
    /\ relevant_docs' = <<>> /\ sources' = <<>> /\ prompt' = <<>>
    /\ reply' = <<>> /\ answer' = <<>>
    /\ IF command = "interactive"
       THEN pc' = "input" /\ UNCHANGED exit_code
       ELSE pc' = "done" /\ exit_code' = 0
    /\ UNCHANGED <<command, directory_exists, pdf_load, txt_load, chunk_size, chunk_overlap, db_path, top_k, dirs, documents, chunks, stored, embed_calls, opened, searched, ollama_calls, line, user_query, raised, reads, queries>>

\* -------------------------------------------------------- `query` command
\* a check that lets every path through
database_unchecked(path, existing) == TRUE

\* os.path.isdir(args.db_path)
database_exists(path, existing) == path \in existing

\* main, lines 51-58: the database must exist, then rag_query is called
QueryCheckDatabase ==
    /\ pc = "start" /\ command = "query"
    /\ IF ~database_exists(db_path, dirs)
       THEN /\ stdout' = Out("Error: Vector database does not exist. Process documents first.")
            /\ exit_code' = 0
            /\ pc' = "done"
            /\ UNCHANGED <<user_query, queries>>
       ELSE /\ user_query' = Question
            /\ queries' = queries + 1
            /\ pc' = "retrieve"
            /\ UNCHANGED <<stdout, exit_code>>
    /\ UNCHANGED <<command, directory_exists, pdf_load, txt_load, chunk_size, chunk_overlap, db_path, top_k, dirs, documents, chunks, stored, embed_calls, opened, searched, ollama_calls, line, relevant_docs, sources, prompt, reply, answer, result, raised, reads, printed>>

\* ------------------------------------------------------- interactive mode
\* interactive.py, lines 50-55: exit(1) unless the database exists
InteractiveCheckDatabase ==
    /\ pc = "start" /\ command = "interactive"
    /\ IF ~database_exists(db_path, dirs)
       THEN /\ stdout' = Out("Error: Vector database does not exist. Process documents first.")
            /\ exit_code' = 1
            /\ pc' = "done"
       ELSE /\ stdout' = Out("Type \"exit\" to quit")
            /\ pc' = "input"
            /\ UNCHANGED exit_code
    /\ UNCHANGED <<command, directory_exists, pdf_load, txt_load, chunk_size, chunk_overlap, db_path, top_k, dirs, documents, chunks, stored, embed_calls, opened, searched, ollama_calls, line, user_query, relevant_docs, sources, prompt, reply, answer, result, raised, reads, queries, printed>>

\* str.lower on the letters of the model
lower_char(c) ==
    CASE c = "E" -> "e" [] c = "X" -> "x" [] c = "I" -> "i" [] c = "T" -> "t"
      [] c = "Q" -> "q" [] c = "U" -> "u" [] OTHER -> c

lower(s) == [i \in 1..Len(s) |-> lower_char(s[i])]

ExitKeywords == { <<"e","x","i","t">>, <<"q","u","i","t">>, <<"q">> }

\* an exit test that forgets lower()
is_exit_case_sensitive(s) == s \in ExitKeywords

\* query.lower() in ["exit", "quit", "q"]
is_exit(s) == lower(s) \in ExitKeywords

\* one turn of `while True`, lines 28-33: a line is read (or input() raises
\* EOFError at the end of the input); an exit keyword breaks the loop, any
\* other line is the question of a rag_query call
ReadInput ==
    /\ pc = "input"
    /\ reads < MaxReads
    /\ reads' = reads + 1
    /\ \/ /\ raised' = "EOFError"
          /\ exit_code' = 1
          /\ pc' = "done"
          /\ stdout' = Out("Question: ")
          /\ UNCHANGED <<line, user_query, queries>>
       \/ \E l \in Lines :
            /\ line' = l
            /\ IF is_exit(l)
               THEN /\ pc' = "done"
                    /\ exit_code' = 0
                    /\ stdout' = Out("Question: ")
                    /\ UNCHANGED <<user_query, queries>>
               ELSE /\ stdout' = Out("Thinking...")
                    /\ user_query' = l
                    /\ queries' = queries + 1
                    /\ pc' = "retrieve"
                    /\ UNCHANGED exit_code
            /\ UNCHANGED raised
    /\ UNCHANGED <<command, directory_exists, pdf_load, txt_load, chunk_size, chunk_overlap, db_path, top_k, dirs, documents, chunks, stored, embed_calls, opened, searched, ollama_calls, relevant_docs, sources, prompt, reply, answer, result, printed>>

NextQuery == QueryCheckDatabase \/ InteractiveCheckDatabase \/ ReadInput \/ Retrieve \/ Assemble \/ Generate \/ Return \/ PrintResult

SpecQuery == InitQuery /\ [][NextQuery]_vars

\* the whole program
Next == NextProcess \/ NextQuery

Spec == Init /\ [][Next]_vars

\* ================================================================= claims
NoDuplicates(seq) == \A i, j \in 1..Len(seq) : i # j => seq[i] # seq[j]

\* the source values of the retrieved chunks that have one
RetrievedSources == {d.metadata["source"] : d \in {x \in Range(relevant_docs) : "source" \in DOMAIN x.metadata}}

\* sub occurs in seq as a contiguous run
Contains(seq, sub) == \E i \in 0..(Len(seq) - Len(sub)) : SubSeq(seq, i + 1, i + Len(sub)) = sub

\* the lines of the model that are an exit keyword in some letter case
ExitLines == { <<"e","x","i","t">>, <<"E","X","I","T">>, <<"Q","u","i","t">>, <<"q","u","i","t">>, <<"q">>, <<"Q">> }

InCall == pc \in {"retrieve", "assemble", "generate", "return", "print"}

\* C1: when retrieval fails inside rag_query, the program is ended by that
\* failure: no request was posted to the generation service for that query
\* (every earlier query posted exactly one), no result was returned or printed
\* for it, and nothing runs after it.
C1_RetrievalFailureSkipsGeneration ==
    raised = "retrieval failed" =>
        /\ pc = "done"
        /\ ollama_calls = queries - 1
        /\ printed = queries - 1
        /\ result = <<>> /\ prompt = <<>> /\ answer = <<>>

C1_Witness ==
    /\ raised = "retrieval failed" /\ pc = "done"
    /\ queries = 2 /\ ollama_calls = 1 /\ searched = 2

\* C2: a query or an interactive session started with a database path that
\* is not a directory stops with the error message at once: no embedding
\* model is initialised, no vector store is opened or searched, and no request
\* is posted to the generation service.
C2_MissingDatabaseStopsBeforeRetrieval ==
    (command \in {"query", "interactive"} /\ db_path \notin dirs) =>
        /\ embed_calls = 0 /\ opened = <<>> /\ searched = 0 /\ ollama_calls = 0
        /\ queries = 0 /\ reads = 0
        /\ pc \in {"start", "done"}
        /\ pc = "done" => stdout.text = "Error: Vector database does not exist. Process documents first."

C2_Witness ==
    /\ command = "query" /\ db_path \notin dirs /\ dirs # {} /\ pc = "done"
    /\ stdout.text = "Error: Vector database does not exist. Process documents first."

\* C3: the sources rag_query returns hold every distinct source of the
\* retrieved chunks exactly once and nothing else; a chunk without a source
\* adds nothing and a source repeated across chunks is listed once.
C3_SourcesDeduplicated ==
    pc = "print" =>
        /\ NoDuplicates(result[1].sources)
        /\ Range(result[1].sources) = RetrievedSources

C3_Witness ==
    /\ pc = "print" /\ Len(relevant_docs) = 3
    /\ relevant_docs[1] = relevant_docs[3]
    /\ "source" \in DOMAIN relevant_docs[1].metadata
    /\ "source" \notin DOMAIN relevant_docs[2].metadata
    /\ Len(result[1].sources) = 1

\* C7: when the generation service replies, rag_query returns normally: for a
\* status other than 200 the answer is an error string that contains the raw
\* body of the reply, for status 200 it is exactly the reply's response
\* field; in both cases the sources are the deduplicated sources of the
\* retrieved chunks.
C7_ServiceReplyBecomesAnswer ==
    (pc = "print" /\ reply # <<>>) =>
        /\ raised = "None"
        /\ reply[1].status = 200 => result[1].answer = reply[1].response
        /\ reply[1].status # 200 =>
              /\ SubSeq(result[1].answer, 1, 5) = <<"E","r","r","o","r">>
              /\ Contains(result[1].answer, reply[1].text)
        /\ NoDuplicates(result[1].sources)
        /\ Range(result[1].sources) = RetrievedSources

C7_Witness ==
    /\ pc = "print" /\ reply # <<>> /\ reply[1].status = 500
    /\ reply[1].text = <<"n", "o">>
    /\ Len(result[1].sources) = 2

\* C9 as stated: the loop ends exactly when an exit keyword is read, an exit
\* keyword issues no query, and every other line issues exactly one rag_query
\* call whose answer and 1-indexed sources are printed before the next read.
C9_LoopEndsOnlyOnExitKeyword ==
    command = "interactive" =>
        /\ (pc = "done" /\ reads > 0) =>
              (line \in ExitLines /\ raised = "None" /\ queries = reads - 1 /\ printed = reads - 1)
        /\ InCall => (line \notin ExitLines /\ queries = reads /\ printed = reads - 1)
        /\ pc = "input" => (queries = reads /\ printed = reads /\ ollama_calls = reads)
        /\ (pc = "input" /\ reads > 0) =>
              (stdout.text = "Answer:" /\ \A i \in 1..Len(stdout.sources) : stdout.sources[i][1] = i)

\* C9 amended: the loop ends exactly when an exit keyword (in any letter
\* case) is read or an exception ends the program (a rag_query call that
\* fails, or the end of the input); an exit keyword issues no query; every
\* other line issues exactly one rag_query call and, when that call returns,
\* its answer and 1-indexed sources are printed before the next read.
C9_LoopEndsOnExitOrException ==
    command = "interactive" =>
        /\ (pc = "done" /\ reads > 0 /\ raised = "None") =>
              (line \in ExitLines /\ queries = reads - 1 /\ printed = reads - 1)
        /\ (pc = "done" /\ reads > 0 /\ raised # "None") =>
              (raised \in {"retrieval failed", "generation failed", "EOFError"} /\ printed = queries - (IF raised = "EOFError" THEN 0 ELSE 1))
        /\ InCall => (line \notin ExitLines /\ queries = reads /\ printed = reads - 1 /\ raised = "None")
        /\ pc = "input" => (queries = reads /\ printed = reads /\ ollama_calls = reads /\ raised = "None")
        /\ (pc = "input" /\ reads > 0) =>
              (stdout.text = "Answer:" /\ \A i \in 1..Len(stdout.sources) : stdout.sources[i][1] = i)

C9_Witness ==
    /\ command = "interactive" /\ pc = "done" /\ raised = "None"
    /\ reads = 3 /\ queries = 2 /\ printed = 2 /\ ollama_calls = 2
    /\ line = <<"Q","u","i","t">>

\* C10 as stated: every vector store a query opens is the one at the
\* database path the user supplied.
C10_OpensSuppliedDbPath == \A i \in 1..Len(opened) : opened[i] = db_path


AfterSplit == pc \in {"store", "done"} /\ raised = "None" /\ directory_exists

\* name is path's last component: no "/" in it, and path is name alone or
\* something ending in "/" followed by name
IsBasenameOf(name, path) ==
    /\ \A i \in 1..Len(name) : name[i] # "/"
    /\ Len(name) <= Len(path)
    /\ SubSeq(path, Len(path) - Len(name) + 1, Len(path)) = name
    /\ Len(name) < Len(path) => path[Len(path) - Len(name)] = "/"

\* C4: the chunks split_documents returns are numbered 0, 1, 2, ... in
\* emission order across all documents of the run (unique, strictly
\* increasing, no gap, no new start at a document boundary), and a chunk with
\* a source has the basename of that source as file_name.
C4_ChunkIdsGlobalAndFileNames ==
    AfterSplit =>
        /\ \A i \in 1..Len(chunks) : chunks[i].metadata["chunk_id"] = i - 1
        /\ \A i, j \in 1..Len(chunks) :
              i < j => chunks[i].metadata["chunk_id"] < chunks[j].metadata["chunk_id"]
        /\ \A i \in 1..Len(chunks) :
              "source" \in DOMAIN chunks[i].metadata =>
                  /\ "file_name" \in DOMAIN chunks[i].metadata
                  /\ IsBasenameOf(chunks[i].metadata["file_name"], chunks[i].metadata["source"])

C4_Witness ==
    /\ AfterSplit /\ Len(documents) = 2 /\ Len(chunks) = 4
    /\ chunks[2].metadata["source"] = PdfSource
    /\ chunks[2].metadata["file_name"] = <<"p">>
    /\ "source" \notin DOMAIN chunks[3].metadata
    /\ chunks[4].metadata["chunk_id"] = 3

NothingStored == embed_calls = 0 /\ \A p \in DbPaths : stored[p] = <<>>

\* C5 as stated: a chunk_overlap that is not smaller than chunk_size is
\* rejected before any splitting, so no chunk is produced and nothing is
\* stored, chunk_overlap = chunk_size included.
C5_OverlapNotBelowSizeRejected ==
    (command = "process" /\ chunk_overlap >= chunk_size) =>
        /\ chunks = <<>>
        /\ NothingStored
        /\ (directory_exists /\ pc \in {"store", "done"}) => raised = "ValueError"

\* C8: the `process` command calls store_documents only with at least one
\* chunk. When the directory is missing or no document loads, the problem is
\* reported and nothing is stored; what one loader loaded is kept when the
\* other loader fails.
C8_StoreOnlyWithChunks ==
    command = "process" =>
        /\ ~NothingStored => (chunks # <<>> /\ documents # <<>> /\ directory_exists /\ pc = "done")
        /\ (pc = "done" /\ (~directory_exists \/ documents = <<>>)) =>
              /\ NothingStored
              /\ \/ raised = "ValueError"
                 \/ stdout.text \in {"Error: Directory does not exist", "No documents were processed."}
        /\ (pc \in {"split", "store", "done"} /\ directory_exists) =>
              documents = (IF pdf_load.ok THEN pdf_load.docs ELSE <<>>) \o (IF txt_load.ok THEN txt_load.docs ELSE <<>>)

C8_Witness ==
    /\ command = "process" /\ pc = "done" /\ directory_exists
    /\ ~pdf_load.ok /\ txt_load.ok /\ Len(documents) = 1
    /\ chunks = <<>> /\ NothingStored
    /\ stdout.text = "No documents were processed."

\* texts of the chunks, in order
ChunkTexts == [i \in 1..Len(chunks) |-> chunks[i].page_content]

\* the chunks from the k-th on continue text after its first pos characters,
\* each after dropping a prefix of at most `overlap` characters that repeats
\* the characters just before pos
RECURSIVE Continues(_, _, _, _, _)
Continues(texts, k, text, pos, overlap) ==
    IF k > Len(texts) THEN pos = Len(text)
    ELSE \E t \in 0..(IF k = 1 THEN 0 ELSE overlap) :
            /\ t <= Len(texts[k]) /\ t <= pos
            /\ SubSeq(texts[k], 1, t) = SubSeq(text, pos - t + 1, pos)
            /\ pos + Len(texts[k]) - t <= Len(text)
            /\ SubSeq(texts[k], t + 1, Len(texts[k])) = SubSeq(text, pos + 1, pos + Len(texts[k]) - t)
            /\ Continues(texts, k + 1, text, pos + Len(texts[k]) - t, overlap)

\* C6 as stated: for 0 <= chunk_overlap < chunk_size, the chunk texts of a
\* document, with the overlaps between neighbours trimmed, concatenate to the
\* document's text exactly.
C6_SplitIsLossless ==
    (command = "split" /\ pc = "store" /\ chunk_overlap < chunk_size) =>
        Continues(ChunkTexts, 1, documents[1].page_content, 0, chunk_overlap)

====
